---------------------------- MODULE Spec2Model ----------------------------
(***************************************************************************)
(* A model of the pet-finder scraping pipeline (website/services.py,       *)
(* website/models.py, website/geocoding.py): the Pet store, the upsert     *)
(* (save_pets_to_database), clear_all_pets, remove_duplicate_pets, the     *)
(* page fetcher, the record normalizer and the pagination loop.            *)
(*                                                                         *)
(* Python values are tagged records: None, strings (sequences of one-      *)
(* character strings, so that strip() and lower() are computed), numbers,  *)
(* booleans, mappings and lists.  A raised exception is the value          *)
(* Raise(kind).                                                            *)
(***************************************************************************)
EXTENDS Integers, Sequences, FiniteSets, TLC

VARIABLES
    store,      \* the Pet table: a set of Pet rows
    nextId,     \* the next primary key the table hands out
    last,       \* what the last finished store operation was and returned
    sc,         \* the running scrape_pets invocation (its locals and position)
    probe       \* the last call of a pure function: its input and its result

vars == <<store, nextId, last, sc, probe>>

-----------------------------------------------------------------------------
(* Python values *)

None == [t |-> "none"]
Str(s) == [t |-> "str", s |-> s]
Num(n) == [t |-> "num", n |-> n]
Bool(b) == [t |-> "bool", b |-> b]
Map(m) == [t |-> "map", m |-> m]
List(l) == [t |-> "list", l |-> l]
Raise(e) == [t |-> "raise", e |-> e]

EmptyStr == Str(<<>>)
EmptyMap == Map(<<>>)

IsRaise(v) == "t" \in DOMAIN v /\ v.t = "raise"

\* bool(v): the truth value Python gives a value in `if v` / `not v`
Truthy(v) ==
    CASE v.t = "none" -> FALSE
      [] v.t = "str"  -> v.s # <<>>
      [] v.t = "num"  -> v.n # 0
      [] v.t = "bool" -> v.b
      [] v.t = "map"  -> DOMAIN v.m # {}
      [] v.t = "list" -> v.l # <<>>

\* d.get(k, dflt): needs a mapping, anything else has no attribute get
Get(d, k, dflt) ==
    IF d.t = "raise" THEN d
    ELSE IF d.t # "map" THEN Raise("AttributeError")
    ELSE IF k \in DOMAIN d.m THEN d.m[k] ELSE dflt

RECURSIVE LStrip(_)
LStrip(s) == IF s # <<>> /\ Head(s) = " " THEN LStrip(Tail(s)) ELSE s

RECURSIVE RStrip(_)
RStrip(s) ==
    IF s # <<>> /\ s[Len(s)] = " " THEN RStrip(SubSeq(s, 1, Len(s) - 1)) ELSE s

\* v.strip(): only str has it
Strip(v) ==
    IF v.t = "raise" THEN v
    ELSE IF v.t # "str" THEN Raise("AttributeError")
    ELSE Str(LStrip(RStrip(v.s)))

LowerAlpha == <<"a", "b", "c", "d", "e", "f", "g", "h", "i", "j", "k", "l", "m",
                "n", "o", "p", "q", "r", "s", "t", "u", "v", "w", "x", "y", "z">>

UpperAlpha == <<"A", "B", "C", "D", "E", "F", "G", "H", "I", "J", "K", "L", "M",
                "N", "O", "P", "Q", "R", "S", "T", "U", "V", "W", "X", "Y", "Z">>

LowerChar(c) ==
    IF \E i \in DOMAIN UpperAlpha : UpperAlpha[i] = c
    THEN LowerAlpha[CHOOSE i \in DOMAIN UpperAlpha : UpperAlpha[i] = c]
    ELSE c

UpperChar(c) ==
    IF \E i \in DOMAIN LowerAlpha : LowerAlpha[i] = c
    THEN UpperAlpha[CHOOSE i \in DOMAIN LowerAlpha : LowerAlpha[i] = c]
    ELSE c

IsLetter(c) ==
    \E i \in DOMAIN LowerAlpha : LowerAlpha[i] = c \/ UpperAlpha[i] = c

\* v.lower()
Lower(v) ==
    IF v.t = "raise" THEN v
    ELSE IF v.t # "str" THEN Raise("AttributeError")
    ELSE Str([i \in DOMAIN v.s |-> LowerChar(v.s[i])])


\* the characters of a key, for `k in s` on a str operand (substring test)
KeyChars(k) ==
    CASE k = "result"    -> <<"r", "e", "s", "u", "l", "t">>
      [] k = "email_url" -> <<"e", "m", "a", "i", "l", "_", "u", "r", "l">>

IsSubstring(k, s) ==
    \E i \in 1..(Len(s) + 1) :
        /\ i + Len(k) - 1 <= Len(s)
        /\ SubSeq(s, i, i + Len(k) - 1) = k

\* k in d: mapping -> key test, list -> element test, str -> substring
\* test, None / number / bool -> TypeError (not iterable)
In(k, d) ==
    CASE d.t = "map"  -> Bool(k \in DOMAIN d.m)
      [] d.t = "list" -> Bool(\E i \in DOMAIN d.l : d.l[i] = Str(KeyChars(k)))
      [] d.t = "str"  -> Bool(IsSubstring(KeyChars(k), d.s))
      [] OTHER        -> Raise("TypeError")

\* d[k]: a mapping with the key, KeyError without it, TypeError on a
\* list or str subscripted by a str, on None, on a number
Index(d, k) ==
    IF d.t = "map"
    THEN IF k \in DOMAIN d.m THEN d.m[k] ELSE Raise("KeyError")
    ELSE Raise("TypeError")

Digits == {"0", "1", "2", "3", "4", "5", "6", "7", "8", "9"}

DigitVal(c) ==
    CASE c = "0" -> 0 [] c = "1" -> 1 [] c = "2" -> 2 [] c = "3" -> 3
      [] c = "4" -> 4 [] c = "5" -> 5 [] c = "6" -> 6 [] c = "7" -> 7
      [] c = "8" -> 8 [] c = "9" -> 9

RECURSIVE DecimalOf(_)
DecimalOf(s) ==
    IF s = <<>> THEN 0
    ELSE 10 * DecimalOf(SubSeq(s, 1, Len(s) - 1)) + DigitVal(s[Len(s)])

\* float(v) under `except (ValueError, TypeError)`: a number, a bool or a
\* str of digits (surrounding blanks allowed) converts; None is what the
\* handler stores for everything else
FloatOrNone(v) ==
    CASE v.t = "num"  -> v
      [] v.t = "bool" -> Num(IF v.b THEN 1 ELSE 0)
      [] v.t = "str"  ->
            LET d == LStrip(RStrip(v.s))
            IN  IF d # <<>> /\ \A i \in DOMAIN d : d[i] \in Digits
                THEN Num(DecimalOf(d)) ELSE None
      [] OTHER        -> None

-----------------------------------------------------------------------------
(* PetFinderScraper.extract_pet_data *)

\* animal.get(k, {}).get('name', '').strip() if animal.get(k) else ''
BreedName(animal, k) ==
    IF Truthy(Get(animal, k, None))
    THEN Strip(Get(Get(animal, k, EmptyMap), "name", EmptyStr))
    ELSE EmptyStr

\* lines 146-157: the fields every normalized record has
ExtractBasic(animal) ==
    [ name                |-> Strip(Get(animal, "name", EmptyStr)),
      primary_breed       |-> BreedName(animal, "primary_breed"),
      is_mixed_breed      |-> Get(animal, "is_mixed_breed", Bool(FALSE)),
      primary_color       |-> Strip(Get(animal, "primary_color", EmptyStr)),
      age                 |-> Strip(Get(animal, "age", EmptyStr)),
      sex                 |-> Lower(Strip(Get(animal, "sex", EmptyStr))),
      size                |-> Lower(Strip(Get(animal, "size", EmptyStr))),
      coat_length         |-> Lower(Strip(Get(animal, "coat_length", EmptyStr))),
      adoption_fee_waived |-> Get(animal, "adoption_fee_waived", Bool(FALSE)) ]

\* lines 166-170: latitude / longitude only when the geo object is truthy
ExtractGeo(location) ==
    LET geo == Get(location, "geo", EmptyMap)
    IN  IF Truthy(geo)
        THEN [ latitude  |-> Get(geo, "latitude", None),
               longitude |-> Get(geo, "longitude", None) ]
        ELSE <<>>

\* lines 159-170: the location keys only when the location object is
\* truthy; a truthy location that is no mapping has no attribute get
ExtractLocation(location) ==
    IF ~Truthy(location) THEN <<>>
    ELSE IF location.t # "map" THEN [ location_city |-> Raise("AttributeError") ]
    ELSE LET address == Get(location, "address", EmptyMap)
         IN  [ location_city  |-> Strip(Get(address, "city", EmptyStr)),
               location_state |-> Strip(Get(address, "state", EmptyStr)),
               location_zip   |-> Strip(Get(address, "postal_code", EmptyStr)) ]
             @@ ExtractGeo(location)

\* lines 172-174: the secondary_breed key only when the source has one
ExtractSecondary(animal) ==
    IF Truthy(Get(animal, "secondary_breed", None))
    THEN [ secondary_breed |->
             Strip(Get(Index(animal, "secondary_breed"), "name", EmptyStr)) ]
    ELSE <<>>

\* lines 176-181
ExtractProfileUrl(animal) ==
    LET social_sharing == Get(animal, "social_sharing", EmptyMap)
    IN  IF ~Truthy(social_sharing) THEN EmptyStr
        ELSE LET has == In("email_url", social_sharing)
             IN  IF IsRaise(has) THEN has
                 ELSE IF has.b THEN Strip(Index(social_sharing, "email_url"))
                 ELSE EmptyStr

\* lines 183-187
ExtractPhotoUrl(animal) ==
    IF "primary_photo_cropped_url" \in DOMAIN animal.m
    THEN Strip(animal.m["primary_photo_cropped_url"])
    ELSE EmptyStr

\* lines 189-197
ExtractFee(animal) ==
    LET adoption_fee == Get(animal, "public_adoption_fee", None)
    IN  IF adoption_fee # None THEN FloatOrNone(adoption_fee) ELSE None

\* the exceptions among the values of a record under construction
Raised(extracted) ==
    { extracted[k] : k \in { j \in DOMAIN extracted : IsRaise(extracted[j]) } }

\* The normalized record, or Raise(..) when some statement of the function
\* raises.  animal = pet_data.get('animal', {}) must be a mapping for line
\* 147 (animal.get) to run at all; a falsy location is never looked into.
\* (extracted is the dict of lines 146-197, built once.)
extract_pet_data(pet_data) ==
    LET animal   == Get(pet_data, "animal", EmptyMap)
        location == Get(pet_data, "location", EmptyMap)
    IN  IF IsRaise(animal) \/ animal.t # "map" THEN Raise("AttributeError")
        ELSE IF IsRaise(location) THEN location
        ELSE CHOOSE result \in
                 { IF Raised(extracted) # {}
                   THEN CHOOSE r \in Raised(extracted) : TRUE
                   ELSE extracted :
                     extracted \in
                       { ExtractBasic(animal)
                         @@ ExtractLocation(location)
                         @@ ExtractSecondary(animal)
                         @@ [ profile_url         |-> ExtractProfileUrl(animal),
                              photo_url           |-> ExtractPhotoUrl(animal),
                              public_adoption_fee |-> ExtractFee(animal) ] } } :
                 TRUE

-----------------------------------------------------------------------------
(* PetFinderScraper.build_search_url, PetFinderScraper.fetch_page_data *)

\* int(v): a number is itself, a bool 0 or 1, a str of digits with an
\* optional sign and surrounding blanks its value; any other str is a
\* ValueError, None / list / mapping a TypeError
IntOf(v) ==
    CASE v.t = "num"  -> v
      [] v.t = "bool" -> Num(IF v.b THEN 1 ELSE 0)
      [] v.t = "str"  ->
            LET d      == LStrip(RStrip(v.s))
                signed == d # <<>> /\ Head(d) \in {"-", "+"}
                digits == IF signed THEN Tail(d) ELSE d
            IN  IF digits # <<>> /\ \A i \in DOMAIN digits : digits[i] \in Digits
                THEN Num(IF signed /\ Head(d) = "-" THEN 0 - DecimalOf(digits)
                         ELSE DecimalOf(digits))
                ELSE Raise("ValueError")
      [] OTHER        -> Raise("TypeError")

\* lines 67-76: the distance put in the query.  None takes the default,
\* everything else goes through int(), whose exception is not handled.
ClampDistance(distance) ==
    LET d == IF distance = None THEN Num(100) ELSE IntOf(distance)
    IN  IF IsRaise(d) THEN d
        ELSE IF d.n < 1 THEN Num(1)
        ELSE IF d.n > 500 THEN Num(500)
        ELSE d

\* the request the URL stands for, or the exception int(distance) raises
build_search_url(city, state, animal, page, distance) ==
    LET d == ClampDistance(distance)
    IN  IF IsRaise(d) THEN d
        ELSE [ page |-> page, limit |-> 100, distance |-> d.n, type |-> animal,
               location_slug |-> <<state, city>> ]

\* What the HTTP exchange of one fetch does: session.get raises
\* ("timeout"), raise_for_status raises ("http_error"), response.json()
\* raises ("bad_json"), or the body parses to a value ("json").
\* fetch_page_data returns the parsed body or raises: the two except
\* clauses turn RequestException and ValueError into PetFinderAPIError,
\* the validation raises PetFinderAPIError itself, and the TypeError of
\* `'result' not in data` on a body that is no container is not caught.
fetch_page_data(response) ==
    IF response.kind \in {"timeout", "http_error", "bad_json"}
    THEN Raise("PetFinderAPIError")
    ELSE LET has == In("result", response.body)
         IN  IF IsRaise(has) THEN has
             ELSE IF ~has.b THEN Raise("PetFinderAPIError")
             ELSE response.body

-----------------------------------------------------------------------------
(* Raw records of the external API, as response.json() parses them *)

Absent == [t |-> "absent"]

\* a JSON object from a record of optional members (Absent = no such key)
Obj(r) == Map([k \in {j \in DOMAIN r : r[j] # Absent} |-> r[k]])

RawAnimals ==
    { Obj([ name                      |-> n,
            primary_breed             |-> pb,
            secondary_breed           |-> sb,
            is_mixed_breed            |-> mx,
            sex                       |-> sx,
            social_sharing            |-> ss,
            primary_photo_cropped_url |-> ph,
            public_adoption_fee       |-> fee ]) :
        n   \in {Absent, None, Str(<<" ", "R", " ">>)},
        pb  \in {Absent, None, Str(<<"L">>), Obj([name |-> Str(<<"L", " ">>)])},
        sb  \in {Absent, Obj([name |-> Str(<<"P">>)])},
        mx  \in {Absent, None, Bool(TRUE)},
        sx  \in {Absent, Str(<<"M">>)},
        ss  \in {Absent, None, Obj([email_url |-> Str(<<" ", "u">>)]),
                 Obj([email_url |-> None])},
        ph  \in {Absent, None, Str(<<"p">>)},
        fee \in {Absent, Str(<<"2", "5">>), Str(<<"x">>)} }

RawLocations ==
    { Absent, None, Str(<<"W">>),
      Obj([address |-> None]),
      Obj([address |-> Obj([city |-> Str(<<"S", " ">>)])]),
      Obj([address |-> Obj([city |-> Str(<<"S">>)]),
           geo     |-> Obj([latitude |-> Num(476), longitude |-> Num(-1223)])]) }

RawRecords ==
    { Obj([animal |-> a, location |-> l]) : a \in RawAnimals, l \in RawLocations }
    \cup { Obj([animal |-> a]) : a \in {None, List(<<>>), Str(<<"R">>)} }
    \cup { None }

-----------------------------------------------------------------------------
(* website/geocoding.py *)

\* str.upper() and str.title() on the characters of a str
UpperSeq(s) == [i \in DOMAIN s |-> UpperChar(s[i])]

CapitalizeSeq(s) ==
    [i \in DOMAIN s |-> IF i = 1 THEN UpperChar(s[i]) ELSE LowerChar(s[i])]

TitleSeq(s) ==
    [i \in DOMAIN s |->
        IF i = 1 \/ ~IsLetter(s[i - 1]) THEN UpperChar(s[i]) ELSE LowerChar(s[i])]

\* Coordinates are kept in tenths of a degree: (47.6062, -122.3321) is
\* <<476, -1223>>.
SeattleKey == << <<"S", "e", "a", "t", "t", "l", "e">>, <<"W", "A">> >>

\* ('New York', 'NY'): (40.7128, -74.0060)
NewYorkKey == << <<"N", "e", "w", " ", "Y", "o", "r", "k">>, <<"N", "Y">> >>

\* the keys of CITY_COORDINATES_CACHE the model carries
CacheKeys == { SeattleKey, NewYorkKey }

CITY_COORDINATES_CACHE(key) ==
    CASE key = SeattleKey -> <<Num(476), Num(-1223)>>
      [] key = NewYorkKey -> <<Num(407), Num(-740)>>

\* line 116 is reached: the external provider is asked
ProviderCalled(city, state) ==
    <<TitleSeq(city.s), UpperSeq(state.s)>> \notin CacheKeys

\* get_coordinates_cached: the table first; on a miss the answer is the
\* provider's, provider being what GeocodingService.get_coordinates
\* returns for this call (coordinates, or <<None, None>> on any failure)
get_coordinates_cached(city, state, provider) ==
    LET cache_key == <<TitleSeq(city.s), UpperSeq(state.s)>>
    IN  IF cache_key \in CacheKeys THEN CITY_COORDINATES_CACHE(cache_key)
        ELSE provider

-----------------------------------------------------------------------------
(* website/models.py: Pet *)

EarthRadius == 3959

\* Distances are kept in units of 1 / MileUnits(1) of a mile, so that the
\* comparison with max_distance is exact.
MileUnits(miles) == miles * (113 * 180 * 10)

\* The haversine formula for two points on one meridian: delta_lon = 0,
\* a = sin^2(delta_lat / 2) and c = |delta_lat| in radians, so the
\* distance is R * |delta_lat| * pi / 180; pi is taken as 355 / 113 and
\* the latitudes are tenths of a degree.
MeridianDistance(lat1, lat2) ==
    EarthRadius * 355 * (IF lat2 < lat1 THEN lat1 - lat2 ELSE lat2 - lat1)

\* Pet.calculate_distance.  None when any of the four values is falsy.
calculate_distance(latitude, longitude, target_lat, target_lon) ==
    IF ~(Truthy(latitude) /\ Truthy(longitude)
         /\ Truthy(target_lat) /\ Truthy(target_lon))
    THEN None
    ELSE CASE longitude.n = target_lon.n ->
              Num(MeridianDistance(latitude.n, target_lat.n))

\* Pet.clean: the ValidationError it raises, None when it passes.  Only
\* full_clean() calls it; Model.save() and objects.create() do not.
clean(pet) ==
    IF Truthy(pet.is_mixed_breed) /\ ~Truthy(pet.secondary_breed)
    THEN Raise("ValidationError")
    ELSE None

PetColumns ==
    { "name", "profile_url", "photo_url", "primary_breed", "secondary_breed",
      "is_mixed_breed", "primary_color", "age", "sex", "size", "coat_length",
      "public_adoption_fee", "adoption_fee_waived", "location_city",
      "location_state", "location_zip", "latitude", "longitude" }

\* the columns declared without null=True
NotNullColumns == { "name", "is_mixed_breed", "adoption_fee_waived" }

DefaultName == Str(<<"U", "n", "k", "n", "o", "w", "n", " ", "P", "e", "t">>)

\* the value a column takes when the constructor is given none
ColumnDefault(k) ==
    CASE k = "name" -> DefaultName
      [] k \in {"is_mixed_breed", "adoption_fee_waived"} -> Bool(FALSE)
      [] OTHER -> None

\* Pet(**pet_data) with a fresh primary key and created_at = timezone.now().
\* Timestamps are only ever compared, so the clock is logical: t is larger
\* than the created_at of every row created before.
NewPet(pet_data, id, t) ==
    [k \in PetColumns |->
        IF k \in DOMAIN pet_data THEN pet_data[k] ELSE ColumnDefault(k)]
    @@ [id |-> id, created_at |-> t]

\* an update that writes the row anew, creation time included
SetAttrsAnew(pet, pet_data) == NewPet(pet_data, pet.id, pet.created_at + 1)

\* for key, value in pet_data.items(): if key != 'id': setattr(pet, key, value)
SetAttrs(pet, pet_data) ==
    [k \in DOMAIN pet |->
        IF k \in DOMAIN pet_data /\ k # "id" THEN pet_data[k] ELSE pet[k]]

\* Model.save() of a row fails (IntegrityError) when a NOT NULL column is None
SaveRejects(pet) == \E k \in NotNullColumns : pet[k] = None

\* Pet.objects.filter(profile_url=p): the rows, newest first (Meta.ordering)
ByProfileUrl(rows, p) == {r \in rows : r.profile_url = p}

\* qs.first() / the head of order_by('-created_at'): the newest row
Newest(rows) == CHOOSE r \in rows : \A q \in rows : q.created_at <= r.created_at

-----------------------------------------------------------------------------
(* PetFinderScraper.save_pets_to_database *)

\* d.get(k) / d.get(k, dflt) on a normalized record (a plain dict)
DictGet(d, k, dflt) == IF k \in DOMAIN d THEN d[k] ELSE dflt

\* lines 219-224: the search origin, <<None, None>> unless all three
\* optional arguments are truthy
SearchOrigin(search_city, search_state, max_distance, provider) ==
    IF Truthy(search_city) /\ Truthy(search_state) /\ Truthy(max_distance)
    THEN get_coordinates_cached(search_city, search_state, provider)
    ELSE <<None, None>>

FilteredOutNoOrigin(pet_data, origin, max_distance) ==
    /\ Truthy(max_distance)
    /\ Truthy(DictGet(pet_data, "latitude", None))
    /\ Truthy(DictGet(pet_data, "longitude", None))
    /\ \/ ~Truthy(origin[1]) \/ ~Truthy(origin[2])
       \/ calculate_distance(pet_data.latitude, pet_data.longitude,
                             origin[1], origin[2]).n > MileUnits(max_distance.n)

\* lines 230-245: TRUE when the record is dropped by the distance filter
FilteredOut(pet_data, origin, max_distance) ==
    /\ Truthy(origin[1]) /\ Truthy(origin[2]) /\ Truthy(max_distance)
    /\ LET pet_lat == DictGet(pet_data, "latitude", None)
           pet_lon == DictGet(pet_data, "longitude", None)
       IN  /\ Truthy(pet_lat) /\ Truthy(pet_lon)
           /\ LET distance ==
                      calculate_distance(pet_lat, pet_lon, origin[1], origin[2])
              IN  distance = None \/ distance.n > MileUnits(max_distance.n)

\* a lookup that takes the empty identifier for a key as well
ExistingPetByAnyUrl(rows, profile_url) ==
    IF ByProfileUrl(rows, profile_url) # {}
    THEN Newest(ByProfileUrl(rows, profile_url))
    ELSE None

\* a lookup that never matches
ExistingPetNever(rows, profile_url) == None

\* lines 251-256: the stored row the record is matched to, None without one
ExistingPet(rows, profile_url) ==
    IF Truthy(profile_url) /\ ByProfileUrl(rows, profile_url) # {}
    THEN Newest(ByProfileUrl(rows, profile_url))
    ELSE None

\* The database inside `with transaction.atomic()` (line 226).  rows and
\* nextId are the uncommitted table; broken is the connection's
\* needs_rollback flag: a Model.save() that raises inside an atomic block
\* sets it, every later query of the block then raises
\* TransactionManagementError, and the block rolls back on exit.
\* log has one entry per record, as the function logs them.
LoopStart(rows, id) ==
    [ rows |-> rows, nextId |-> id, broken |-> FALSE,
      saved_count |-> 0, updated_count |-> 0, filtered_count |-> 0,
      log |-> <<>> ]

Logged(acc, what) == [acc EXCEPT !.log = Append(@, what)]

\* lines 270-274: Pet.objects.create(**pet_data)
CreateNew(acc, pet_data) ==
    LET pet == NewPet(pet_data, acc.nextId, acc.nextId)
    IN  IF SaveRejects(pet)
        THEN Logged([acc EXCEPT !.broken = TRUE], "failed")
        ELSE Logged([acc EXCEPT !.rows = @ \cup {pet},
                                !.nextId = @ + 1,
                                !.saved_count = @ + 1], "created")

\* an update that inserts the incoming record as a new row
UpdateExistingInserts(acc, existing_pet, pet_data) == CreateNew(acc, pet_data)

\* lines 262-269: update the matched row
UpdateExisting(acc, existing_pet, pet_data) ==
    LET pet == SetAttrs(existing_pet, pet_data)
    IN  IF SaveRejects(pet)
        THEN Logged([acc EXCEPT !.broken = TRUE], "failed")
        ELSE Logged([acc EXCEPT !.rows = (@ \ {existing_pet}) \cup {pet},
                                !.updated_count = @ + 1], "updated")

\* lines 250-274: match, then update or insert
MatchAndWrite(acc, pet_data) ==
    LET profile_url == Strip(DictGet(pet_data, "profile_url", EmptyStr))
    IN  IF IsRaise(profile_url) \/ acc.broken THEN Logged(acc, "failed")
        ELSE LET existing_pet == ExistingPet(acc.rows, profile_url)
             IN  IF existing_pet # None
                 THEN UpdateExisting(acc, existing_pet, pet_data)
                 ELSE CreateNew(acc, pet_data)

\* lines 228-278: one iteration of the loop, its try / except included
SaveOne(acc, pet_data, origin, max_distance) ==
    IF FilteredOut(pet_data, origin, max_distance)
    THEN Logged([acc EXCEPT !.filtered_count = @ + 1], "filtered")
    ELSE MatchAndWrite(acc, pet_data)

\* the for loop of line 227: the records in their order, each one on what
\* the one before left (next is that state, evaluated once)
RECURSIVE SaveLoop(_, _, _, _)
SaveLoop(acc, pets_data, origin, max_distance) ==
    IF pets_data = <<>> THEN acc
    ELSE CHOOSE end \in
             { SaveLoop(next, Tail(pets_data), origin, max_distance) :
                 next \in {SaveOne(acc, Head(pets_data), origin, max_distance)} } :
             TRUE

\* leaving the atomic block: commit, or roll the table back when a save
\* failed inside it; the counters are not part of the table
AtomicExit(before, acc) ==
    IF acc.broken
    THEN [acc EXCEPT !.rows = before.rows, !.nextId = before.nextId]
    ELSE acc

\* the whole call: the table and key counter it leaves, its return value
\* (saved_count) and its log
save_pets_to_database(rows, id, pets_data, origin, max_distance) ==
    AtomicExit(LoopStart(rows, id),
               SaveLoop(LoopStart(rows, id), pets_data, origin, max_distance))

-----------------------------------------------------------------------------
(* clear_all_pets, remove_duplicate_pets *)

clear_all_petsKeeps(rows) == [rows |-> rows, ret |-> Cardinality(rows)]

\* clear_all_pets: the emptied table and the count it returns
clear_all_pets(rows) == [rows |-> {}, ret |-> Cardinality(rows)]

Oldest(rows) == CHOOSE r \in rows : \A q \in rows : r.created_at <= q.created_at

ProfileUrlVictimsKeepOldest(rows) ==
    { r \in rows :
        /\ r.profile_url # None /\ r.profile_url # EmptyStr
        /\ Cardinality(ByProfileUrl(rows, r.profile_url)) > 1
        /\ r # Oldest(ByProfileUrl(rows, r.profile_url)) }

\* lines 417-428: for every non-empty profile_url with more than one row,
\* the rows deleted: all but the newest
ProfileUrlVictims(rows) ==
    { r \in rows :
        /\ r.profile_url # None /\ r.profile_url # EmptyStr
        /\ Cardinality(ByProfileUrl(rows, r.profile_url)) > 1
        /\ r # Newest(ByProfileUrl(rows, r.profile_url)) }

ByNameBreed(rows, name, breed) ==
    {r \in rows : r.name = name /\ r.primary_breed = breed}

\* a second pass that only sweeps rows without a profile identifier
NameBreedVictimsNoUrl(rows) ==
    { r \in rows :
        /\ ~Truthy(r.profile_url)
        /\ Cardinality(ByNameBreed(rows, r.name, r.primary_breed)) > 1
        /\ r # Newest(ByNameBreed(rows, r.name, r.primary_breed)) }

\* lines 430-444: for every (name, primary_breed) with more than one row,
\* the rows deleted: all but the newest
NameBreedVictims(rows) ==
    { r \in rows :
        /\ Cardinality(ByNameBreed(rows, r.name, r.primary_breed)) > 1
        /\ r # Newest(ByNameBreed(rows, r.name, r.primary_breed)) }

remove_duplicate_pets_Revisits(rows) ==
    [ rows |-> (rows \ ProfileUrlVictims(rows)) \ NameBreedVictims(rows),
      ret  |-> Cardinality(ProfileUrlVictims(rows))
               + Cardinality(NameBreedVictims(rows)) ]

\* the two passes in sequence; the second queries the table the first left
remove_duplicate_pets(rows) ==
    LET afterA == rows \ ProfileUrlVictims(rows)
        afterB == afterA \ NameBreedVictims(afterA)
    IN  [ rows |-> afterB,
          ret  |-> Cardinality(ProfileUrlVictims(rows))
                   + Cardinality(NameBreedVictims(afterA)) ]

-----------------------------------------------------------------------------
(* Inputs *)

MaxBatch == 2
MaxId == 2

\* raw records the batches are normalized from
RawNear ==
    Obj([ animal   |-> Obj([ name            |-> Str(<<" ", "R", " ">>),
                             primary_breed   |-> Obj([name |-> Str(<<"L", " ">>)]),
                             secondary_breed |-> Obj([name |-> Str(<<"P">>)]),
                             is_mixed_breed  |-> Bool(TRUE),
                             social_sharing  |-> Obj([email_url |-> Str(<<" ", "u">>)]) ]),
          location |-> Obj([ address |-> Obj([city |-> Str(<<"S">>)]),
                             geo     |-> Obj([ latitude  |-> Num(476),
                                               longitude |-> Num(-1223) ]) ]) ])

\* the same listing in a later scrape: no secondary breed, no location
RawAgain ==
    Obj([ animal |-> Obj([ name           |-> Str(<<"R">>),
                           primary_breed  |-> Obj([name |-> Str(<<"L">>)]),
                           social_sharing |-> Obj([email_url |-> Str(<<"u">>)]) ]) ])

\* 1.5 degrees north of the Seattle origin: about 104 miles; a mixed breed
\* listed without its secondary breed
RawFar ==
    Obj([ animal   |-> Obj([ name           |-> Str(<<"T">>),
                             is_mixed_breed |-> Bool(TRUE),
                             social_sharing |-> Obj([email_url |-> Str(<<"v">>)]) ]),
          location |-> Obj([ geo |-> Obj([ latitude  |-> Num(491),
                                           longitude |-> Num(-1223) ]) ]) ])

\* on the equator: latitude 0.0
RawEquator ==
    Obj([ animal   |-> Obj([ name           |-> Str(<<"E">>),
                             social_sharing |-> Obj([email_url |-> Str(<<"x">>)]) ]),
          location |-> Obj([ geo |-> Obj([ latitude  |-> Num(0),
                                           longitude |-> Num(-1223) ]) ]) ])

\* "is_mixed_breed": null
RawNullFlag ==
    Obj([ animal |-> Obj([ name           |-> Str(<<"N">>),
                           is_mixed_breed |-> None,
                           social_sharing |-> Obj([email_url |-> Str(<<"w">>)]) ]) ])

\* no share URL: an empty profile identifier
RawNoUrl ==
    Obj([ animal |-> Obj([ name          |-> Str(<<"R">>),
                           primary_breed |-> Obj([name |-> Str(<<"L">>)]) ]) ])

\* "name": null
RawNullName ==
    Obj([ animal |-> Obj([ name           |-> None,
                           social_sharing |-> Obj([email_url |-> Str(<<"y">>)]) ]) ])

RawSamples ==
    [ Near |-> RawNear, Again |-> RawAgain, Far |-> RawFar,
      Equator |-> RawEquator, NullFlag |-> RawNullFlag, NoUrl |-> RawNoUrl,
      NullName |-> RawNullName ]

\* what extract_pet_data makes of each raw sample, by its name
Normalized == [n \in DOMAIN RawSamples |-> extract_pet_data(RawSamples[n])]

\* the normalized records the batches of direct calls are made of
BatchRecords == {n \in DOMAIN RawSamples : ~IsRaise(Normalized[n])}

\* the pets_data list a sequence of names stands for
PetsData(names) == [i \in DOMAIN names |-> Normalized[names[i]]]

RECURSIVE SeqsUpTo(_, _)
SeqsUpTo(S, n) ==
    IF n = 0 THEN { <<>> }
    ELSE SeqsUpTo(S, n - 1)
         \cup { Append(q, x) : q \in { p \in SeqsUpTo(S, n - 1) : Len(p) = n - 1 },
                               x \in S }

Batches == SeqsUpTo(BatchRecords, MaxBatch)

Seattle == Str(<<"s", "e", "a", "t", "t", "l", "e">>)
Tacoma == Str(<<"T", "a", "c", "o", "m", "a">>)
WA == Str(<<"w", "a">>)

NoAnswer == <<None, None>>

\* (search_city, search_state, max_distance) of a call, and what the
\* external geocoding provider answers if it is asked (Tacoma is no key of
\* the table: the provider finds it, or fails)
SearchArgs ==
    { [city |-> None,    state |-> None, max_distance |-> None,    provider |-> NoAnswer],
      [city |-> Seattle, state |-> WA,   max_distance |-> Num(50), provider |-> NoAnswer],
      [city |-> Seattle, state |-> WA,   max_distance |-> Num(0),  provider |-> NoAnswer],
      [city |-> Tacoma,  state |-> WA,   max_distance |-> Num(50), provider |-> NoAnswer],
      [city |-> Tacoma,  state |-> WA,   max_distance |-> Num(50),
       provider |-> <<Num(472), Num(-1223)>>] }

-----------------------------------------------------------------------------
(* The store operations, called one after the other *)

Idle == [pc |-> "idle"]
NoProbe == [call |-> "none"]

NoOp ==
    [ op |-> "none", batch |-> <<>>, origin |-> <<None, None>>,
      max_distance |-> None, ret |-> 0, log |-> <<>>, broken |-> FALSE,
      repeat |-> FALSE, before |-> {}, search_city |-> None,
      search_state |-> None ]

Init ==
    /\ store = {}
    /\ nextId = 1
    /\ last = NoOp
    /\ sc = Idle
    /\ probe = NoProbe

Save ==
    \E batch \in Batches, a \in SearchArgs :
        \E origin \in {SearchOrigin(a.city, a.state, a.max_distance, a.provider)} :
            \E r \in {save_pets_to_database(store, nextId, PetsData(batch),
                                            origin, a.max_distance)} :
                /\ r.nextId <= MaxId + 1
                /\ store' = r.rows
                /\ nextId' = r.nextId
                /\ last' = [ op |-> "save", batch |-> batch,
                             origin |-> origin, max_distance |-> a.max_distance,
                             ret |-> r.saved_count, log |-> r.log,
                             broken |-> r.broken, before |-> store,
                             search_city |-> a.city, search_state |-> a.state,
                             repeat |-> /\ last.op = "save"
                                        /\ last.batch = batch
                                        /\ last.origin = origin
                                        /\ last.max_distance = a.max_distance ]
                /\ UNCHANGED <<sc, probe>>

Clear ==
    \E r \in {clear_all_pets(store)} :
        /\ store' = r.rows
        /\ last' = [NoOp EXCEPT !.op = "clear", !.ret = r.ret, !.before = store]
        /\ UNCHANGED <<nextId, sc, probe>>

Sweep ==
    \E r \in {remove_duplicate_pets(store)} :
        /\ store' = r.rows
        /\ last' = [NoOp EXCEPT !.op = "sweep", !.ret = r.ret, !.before = store]
        /\ UNCHANGED <<nextId, sc, probe>>

Next == Save \/ Clear \/ Sweep

Spec == Init /\ [][Next]_vars

-----------------------------------------------------------------------------
(* Claims about the store operations *)

\* the profile identifier a record is matched by
RecordUrl(pet_data) == Strip(DictGet(pet_data, "profile_url", EmptyStr))

\* the pets_data of the last save_pets_to_database call
LastData == PetsData(last.batch)

\* record i of the last batch was written and the batch committed
Written(i) == ~last.broken /\ last.log[i] \in {"created", "updated"}

\* C1: starting from an empty store, after any sequence of
\* save_pets_to_database, clear_all_pets and remove_duplicate_pets calls no
\* two stored Pets have the same non-empty profile identifier.
C1_UniqueProfileUrl ==
    \A p \in store, q \in store :
        (Truthy(p.profile_url) /\ p.profile_url = q.profile_url) => p = q

\* a batch that held one non-empty identifier twice was applied: the first
\* record was inserted and the second matched it
C1_Witness ==
    /\ last.op = "save"
    /\ last.log = <<"created", "updated">>
    /\ RecordUrl(LastData[1]) = RecordUrl(LastData[2])
    /\ \E p \in store : p.profile_url = RecordUrl(LastData[1])

\* every record of the last batch carries a non-empty profile identifier
AllUrlsNonEmpty == \A i \in DOMAIN last.batch : Truthy(RecordUrl(LastData[i]))

\* the stored rows with the identifier of record i of the last batch
StoredFor(i) == ByProfileUrl(store, RecordUrl(LastData[i]))

C3_Claim ==
    (last.op = "save" /\ last.origin # NoAnswer /\ last.max_distance # None
     /\ ~last.broken) =>
        \A i \in DOMAIN last.batch :
            LET lat == DictGet(LastData[i], "latitude", None)
                lon == DictGet(LastData[i], "longitude", None)
            IN  IF lat # None /\ lon # None
                THEN Written(i) <=>
                        MeridianDistance(lat.n, last.origin[1].n)
                            <= MileUnits(last.max_distance.n)
                ELSE Written(i)

\* the column values Pet(**pet_data) has: those of the record, the column
\* default where the record has no such key
NormalForm(pet_data) ==
    [k \in PetColumns |->
        IF k \in DOMAIN pet_data THEN pet_data[k] ELSE ColumnDefault(k)]

\* record i is the last one of the batch with its identifier
LastOfItsUrl(i) ==
    \A j \in DOMAIN last.batch :
        j > i => RecordUrl(LastData[j]) # RecordUrl(LastData[i])

\* C4 as stated: after a record is matched to an existing entity by its
\* profile identifier, the stored entity equals the normalized form of the
\* incoming record on every field other than identity; no field keeps a
\* value of the earlier scrape.
C4_Claim ==
    (last.op = "save" /\ ~last.broken) =>
        \A i \in DOMAIN last.batch :
            (last.log[i] = "updated" /\ LastOfItsUrl(i)) =>
                \A row \in StoredFor(i) :
                    \A k \in PetColumns : row[k] = NormalForm(LastData[i])[k]

\* the record cannot be written: a NOT NULL column would be None
BadRecord(pet_data) == SaveRejects(NormalForm(pet_data))

\* the store holds the record: a row with its identifier or, for a record
\* without one, a row with its values
Persisted(pet_data) ==
    IF Truthy(RecordUrl(pet_data))
    THEN ByProfileUrl(store, RecordUrl(pet_data)) # {}
    ELSE \E row \in store : \A k \in DOMAIN pet_data : row[k] = pet_data[k]

\* C10 as stated: a record that fails while being matched or written is
\* the only one skipped; every other record of the batch that passes the
\* distance filter is persisted when the call returns.
C10_Claim ==
    last.op = "save" =>
        \A i \in DOMAIN last.batch :
            ( /\ ~BadRecord(LastData[i])
              /\ ~FilteredOut(LastData[i], last.origin, last.max_distance) )
            => Persisted(LastData[i])

-----------------------------------------------------------------------------
(* PetFinderScraper.scrape_pets, one step per page *)

MaxPages == 3

\* time.sleep(2)
RateLimitDelay == 2

\* line 307: first_page_data.get('result', {}).get('pagination', {})
Pagination(first_page_data) ==
    Get(Get(first_page_data, "result", EmptyMap), "pagination", EmptyMap)

\* line 308: pagination.get('total_pages', 1)
TotalPages(first_page_data) ==
    Get(Pagination(first_page_data), "total_pages", Num(1))

PagesToScrapeAll(max_pages, total_pages) ==
    IF IsRaise(total_pages) THEN total_pages
    ELSE IF total_pages.t # "num" THEN Raise("TypeError")
    ELSE Num(max_pages)

\* line 313: min(max_pages, total_pages); int against None or str is a
\* TypeError
PagesToScrape(max_pages, total_pages) ==
    IF IsRaise(total_pages) THEN total_pages
    ELSE IF total_pages.t # "num" THEN Raise("TypeError")
    ELSE Num(IF total_pages.n < max_pages THEN total_pages.n ELSE max_pages)

\* line 330: page_data.get('result', {}).get('animals', [])
Animals(page_data) ==
    Get(Get(page_data, "result", EmptyMap), "animals", List(<<>>))

\* lines 332-334: each record is normalized and appended until one raises
RECURSIVE ExtractAll(_, _)
ExtractAll(animals, all_pets_data) ==
    IF animals = <<>> THEN [all_pets_data |-> all_pets_data, raised |-> FALSE]
    ELSE CHOOSE result \in
             { IF IsRaise(pet_data)
               THEN [all_pets_data |-> all_pets_data, raised |-> TRUE]
               ELSE ExtractAll(Tail(animals), Append(all_pets_data, pet_data)) :
                 pet_data \in { extract_pet_data(animal_data) :
                                  animal_data \in {Head(animals)} } } :
             TRUE

\* `for animal_data in animals`: a list gives its elements, an empty str
\* or mapping nothing; the characters of a str and the keys of a mapping
\* are strs, which extract_pet_data cannot read; None, a number or a bool
\* cannot be iterated
ExtractPage(animals, all_pets_data) ==
    IF IsRaise(animals) THEN [all_pets_data |-> all_pets_data, raised |-> TRUE]
    ELSE IF animals.t = "list" THEN ExtractAll(animals.l, all_pets_data)
    ELSE [all_pets_data |-> all_pets_data, raised |-> Truthy(animals) \/ animals = None]

FetchEvent(page_num) == [e |-> "fetch", page |-> page_num]
SleepEvent(page_num) == [e |-> "sleep", page |-> page_num, units |-> RateLimitDelay]

\* lines 301-315 and 354-356: the call up to the loop.  Any exception of
\* the first fetch or of the pagination arithmetic leaves through the
\* outer handler as PetFinderAPIError.
ScrapeStart(a, response) ==
    LET first_page_url  == build_search_url(a.city, a.state, a.animal, 1, a.distance)
        first_page_data == IF IsRaise(first_page_url) THEN first_page_url
                           ELSE fetch_page_data(response)
        total_pages     == IF IsRaise(first_page_data) THEN first_page_data
                           ELSE TotalPages(first_page_data)
        pages_to_scrape == PagesToScrape(a.max_pages, total_pages)
        trace           == IF IsRaise(first_page_url) THEN <<>> ELSE <<FetchEvent(1)>>
        fetched         == IF IsRaise(first_page_url) THEN <<>> ELSE <<first_page_data>>
    IN  IF IsRaise(pages_to_scrape)
        THEN [ pc |-> "done", args |-> a, trace |-> trace, fetched |-> fetched,
               total_pages |-> total_pages, pages_to_scrape |-> 0, page_num |-> 1,
               all_pets_data |-> <<>>, log |-> <<>>, saved |-> FALSE,
               ret |-> Raise("PetFinderAPIError") ]
        ELSE [ pc |-> "loop", args |-> a, trace |-> trace, fetched |-> fetched,
               total_pages |-> total_pages, pages_to_scrape |-> pages_to_scrape.n,
               page_num |-> 1, all_pets_data |-> <<>>, log |-> <<>>,
               saved |-> FALSE, ret |-> None ]

PageFailedRetries(s, trace, fetched) ==
    [s EXCEPT !.trace = trace, !.fetched = fetched,
              !.log = Append(@, [page |-> s.page_num, what |-> "failed"])]

\* the except clause of lines 338-340: the page is logged and left
PageFailed(s, trace, fetched) ==
    [s EXCEPT !.trace = trace, !.fetched = fetched,
              !.log = Append(@, [page |-> s.page_num, what |-> "failed"]),
              !.page_num = @ + 1]

\* lines 318-340: one iteration of the page loop.  Page 1 reuses the data
\* of the first fetch; a later page is fetched, and the sleep follows the
\* fetch that did not raise.
PageStep(s, response) ==
    LET k         == s.page_num
        page_url  == build_search_url(s.args.city, s.args.state, s.args.animal,
                                      k, s.args.distance)
        page_data == IF k = 1 THEN s.fetched[1]
                     ELSE IF IsRaise(page_url) THEN page_url
                     ELSE fetch_page_data(response)
        trace1    == IF k = 1 \/ IsRaise(page_url) THEN s.trace
                     ELSE Append(s.trace, FetchEvent(k))
        fetched   == IF k = 1 \/ IsRaise(page_url) THEN s.fetched
                     ELSE Append(s.fetched, page_data)
    IN  IF IsRaise(page_data) THEN PageFailed(s, trace1, fetched)
        ELSE LET trace2 == IF k = 1 THEN trace1 ELSE Append(trace1, SleepEvent(k))
                 x      == ExtractPage(Animals(page_data), s.all_pets_data)
             IN  IF x.raised
                 THEN [PageFailed(s, trace2, fetched) EXCEPT
                           !.all_pets_data = x.all_pets_data]
                 ELSE [s EXCEPT !.trace = trace2, !.fetched = fetched,
                                !.all_pets_data = x.all_pets_data,
                                !.log = Append(@, [page |-> k, what |-> "extracted"]),
                                !.page_num = k + 1]

PageLoopAborts(s, response) ==
    LET n == PageStep(s, response)
    IN  IF n.log[Len(n.log)].what = "failed"
        THEN [n EXCEPT !.page_num = s.pages_to_scrape + 1]
        ELSE n

\* the body of `for page_num in range(1, pages_to_scrape + 1)`
PageLoop(s, response) == PageStep(s, response)

\* the save of lines 343-348: the origin is resolved once, the batch
\* applied once
ScrapeSaved(s, rows, id) ==
    CHOOSE result \in
        { save_pets_to_database(rows, id, s.all_pets_data, origin, s.args.distance) :
            origin \in { SearchOrigin(s.args.city, s.args.state, s.args.distance,
                                      NoAnswer) } } :
        TRUE

ScrapeFinishRaises(s, rows, id) ==
    CHOOSE result \in
        { [ rows |-> r.rows, nextId |-> r.nextId,
            sc |-> [s EXCEPT !.pc = "done", !.saved = TRUE,
                             !.ret = Raise("PetFinderAPIError")] ] :
            r \in {ScrapeSaved(s, rows, id)} } :
        TRUE

\* lines 343-352: the batch goes to the upsert, the pair (total_pages,
\* pets_saved) is returned
ScrapeFinish(s, rows, id) ==
    CHOOSE result \in
        { [ rows |-> r.rows, nextId |-> r.nextId,
            sc |-> [s EXCEPT !.pc = "done", !.saved = TRUE,
                             !.ret = [ total_pages |-> s.total_pages,
                                       pets_saved  |-> Num(r.saved_count) ]] ] :
            r \in {ScrapeSaved(s, rows, id)} } :
        TRUE

-----------------------------------------------------------------------------
(* What the external API answers *)

\* the records a page lists
AnimalLists ==
    { <<>>, <<RawFar>>, <<RawAgain, RawFar>>, <<RawNear, RawNullName, RawAgain>> }

PageBody(animals, total_pages) ==
    Obj([ result |-> Obj([ animals    |-> animals,
                           pagination |-> IF total_pages = Absent THEN Absent
                                          ELSE Obj([total_pages |-> total_pages]) ]) ])

Failures == { [kind |-> k, body |-> None] : k \in {"timeout", "http_error", "bad_json"} }

Json(body) == [kind |-> "json", body |-> body]

\* page 1: the pagination block says how many pages there are
FirstResponses ==
    Failures
    \cup { Json(None), Json(Obj([result |-> None])),
           Json(PageBody(List(<<>>), None)),
           Json(Obj([error |-> Str(<<"e">>)])) }
    \cup { Json(PageBody(List(l), t)) :
             l \in AnimalLists,
             t \in {Absent} \cup { Num(n) : n \in 0..MaxPages } }

\* a later page
LaterResponses ==
    Failures
    \cup { Json(None), Json(PageBody(None, Absent)) }
    \cup { Json(PageBody(List(l), Absent)) : l \in AnimalLists }

NoResponse == [kind |-> "none", body |-> None]

Dog == Str(<<"d", "o", "g">>)

ScrapeArgs ==
    { [ city |-> Seattle, state |-> WA, animal |-> Dog, max_pages |-> m,
        distance |-> d ] :
          m \in 0..MaxPages, d \in {Num(50), None, Num(0), Num(-5)} }

-----------------------------------------------------------------------------
(* scrape_pets as the steps of one caller *)

LoopDoneAfterFirst(s) == s.page_num > 1

\* line 318: `for page_num in range(1, pages_to_scrape + 1)` is exhausted
LoopDone(s) == s.page_num > s.pages_to_scrape

ScrapeCall ==
    /\ sc.pc = "idle"
    /\ nextId <= MaxId
    /\ \E a \in ScrapeArgs, response \in FirstResponses :
           sc' = ScrapeStart(a, response) @@ [rows_at_call |-> store]
    /\ UNCHANGED <<store, nextId, last, probe>>

ScrapePage ==
    /\ sc.pc = "loop"
    /\ ~LoopDone(sc)
    /\ \E response \in (IF sc.page_num = 1 THEN {NoResponse} ELSE LaterResponses) :
           sc' = PageLoop(sc, response)
    /\ UNCHANGED <<store, nextId, last, probe>>

ScrapeSave ==
    /\ sc.pc = "loop"
    /\ LoopDone(sc)
    /\ \E r \in {ScrapeFinish(sc, store, nextId)} :
           /\ store' = r.rows
           /\ nextId' = r.nextId
           /\ sc' = r.sc
    /\ UNCHANGED <<last, probe>>

ScrapeReturn ==
    /\ sc.pc = "done"
    /\ sc' = Idle
    /\ UNCHANGED <<store, nextId, last, probe>>

\* HomePageView.post clears the table before it scrapes
ClearBeforeScrape ==
    /\ sc.pc = "idle"
    /\ store # {}
    /\ store' = clear_all_pets(store).rows
    /\ UNCHANGED <<nextId, last, sc, probe>>

NextScrape ==
    ScrapeCall \/ ScrapePage \/ ScrapeSave \/ ScrapeReturn \/ ClearBeforeScrape

SpecScrape == Init /\ [][NextScrape]_vars

-----------------------------------------------------------------------------
(* Claims about scrape_pets *)

\* the fetches of the call so far, in the order they were made
Fetches == SelectSeq(sc.trace, LAMBDA ev : ev.e = "fetch")

Min(a, b) == IF a < b THEN a ELSE b
Max(a, b) == IF a > b THEN a ELSE b

\* the call has returned its pair
Returned == sc.pc = "done" /\ sc.saved

\* C5 as stated: whenever scrape_pets returns, it has fetched exactly
\* min(max_pages, total_pages) pages, page 1 first, and the total it
\* returns is the one page 1 reported.
C5_Original ==
    Returned =>
        /\ Len(Fetches) = Min(sc.args.max_pages, sc.total_pages.n)
        /\ Fetches[1] = FetchEvent(1)
        /\ sc.ret.total_pages = sc.total_pages

\* C5 (amended): page 1 is fetched whatever max_pages and the reported
\* total are, so a returning call has fetched max(1, min(max_pages,
\* total_pages)) pages: the pages 1, 2, ... in this order, each once; the
\* total it returns is the one page 1 reported (1 without a report).
C5_PagesFetched ==
    Returned =>
        /\ Len(Fetches) = Max(1, Min(sc.args.max_pages, sc.total_pages.n))
        /\ \A k \in DOMAIN Fetches : Fetches[k] = FetchEvent(k)
        /\ sc.ret.total_pages = sc.total_pages
        /\ sc.total_pages = TotalPages(sc.fetched[1])

C5_Witness ==
    /\ Returned
    /\ sc.args.max_pages = 1
    /\ sc.total_pages = Num(2)
    /\ Len(Fetches) = 1
    /\ sc.ret.total_pages = Num(2)

\* the pages whose fetch raised
FailedPages == {k \in DOMAIN sc.fetched : IsRaise(sc.fetched[k])}

\* the records of a fetched page that reach the batch: those before the
\* first record whose normalization raises
Kept(page_data) ==
    LET animals == page_data.m["result"].m["animals"]
        l       == IF animals.t = "list" THEN animals.l ELSE <<>>
        bad     == {i \in DOMAIN l : IsRaise(extract_pet_data(l[i]))}
        n       == IF bad = {} THEN Len(l)
                   ELSE (CHOOSE i \in bad : \A j \in bad : i <= j) - 1
    IN  [i \in 1..n |-> extract_pet_data(l[i])]

RECURSIVE KeptUpTo(_)
KeptUpTo(k) ==
    IF k = 0 THEN <<>>
    ELSE KeptUpTo(k - 1)
         \o (IF IsRaise(sc.fetched[k]) THEN <<>> ELSE Kept(sc.fetched[k]))

\* C6 as stated: a call in which some fetch failed, page 1 included, still
\* fetches every page up to the limit and hands the records of the other
\* pages to the upsert.
C6_Original ==
    (sc.pc = "done" /\ FailedPages # {}) =>
        /\ sc.saved
        /\ Len(sc.fetched) = Max(1, sc.pages_to_scrape)
        /\ sc.all_pets_data = KeptUpTo(Len(sc.fetched))

\* C6 (amended): a failed fetch of page 1 ends the call with
\* PetFinderAPIError, no other page fetched and nothing handed to the
\* upsert; a failed fetch of a later page skips that page only: every page
\* up to the limit is fetched and the batch handed to the upsert is, in
\* page order, the records of each fetched page up to its first record
\* whose normalization raises.
C6_SkipsLaterPageOnly ==
    sc.pc = "done" =>
        IF 1 \in FailedPages
        THEN /\ sc.ret = Raise("PetFinderAPIError")
             /\ ~sc.saved
             /\ Len(sc.fetched) = 1
             /\ sc.all_pets_data = <<>>
        ELSE sc.saved =>
             /\ Len(sc.fetched) = Max(1, sc.pages_to_scrape)
             /\ sc.all_pets_data =
                    IF sc.pages_to_scrape < 1 THEN <<>> ELSE KeptUpTo(Len(sc.fetched))

C6_Witness ==
    /\ Returned
    /\ sc.pages_to_scrape = 3
    /\ FailedPages = {2}
    /\ Kept(sc.fetched[3]) # <<>>
    /\ sc.all_pets_data = Kept(sc.fetched[1]) \o Kept(sc.fetched[3])

\* C7: between the fetch of page k-1 and the fetch of page k (k > 1) the
\* trace of the call always has a delay event.
C7_Claim ==
    sc.pc # "idle" =>
        \A i, j \in DOMAIN sc.trace :
            ( /\ i < j
              /\ sc.trace[i].e = "fetch" /\ sc.trace[j].e = "fetch"
              /\ sc.trace[j].page > 1
              /\ sc.trace[i].page = sc.trace[j].page - 1 )
            => \E m \in (i + 1)..(j - 1) : sc.trace[m].e = "sleep"

-----------------------------------------------------------------------------
(* The pure functions, called on what the external API can send *)

ResultStr == Str(<<"r", "e", "s", "u", "l", "t">>)

\* parsed bodies that are no JSON object, or an object without "result"
OddBodies ==
    { None, Num(0), Num(7), Bool(TRUE), Bool(FALSE),
      EmptyStr, Str(<<"x">>), ResultStr, Str(<<"n", "o">> \o ResultStr.s),
      List(<<>>), List(<<ResultStr>>), List(<<Num(7)>>),
      EmptyMap, Obj([error |-> Str(<<"e">>)]), Obj([results |-> EmptyMap]) }

\* objects with the result container: a page of up to MaxBatch records
ResultBodies ==
    { Obj([result |-> None]), Obj([result |-> EmptyMap]) }
    \cup { PageBody(List(l), t) :
              l \in SeqsUpTo({RawSamples[n] : n \in DOMAIN RawSamples}, MaxBatch),
              t \in {Absent, Num(1), Num(2)} }

FetchResponses == Failures \cup { Json(b) : b \in OddBodies \cup ResultBodies }

FetchCall ==
    /\ probe.call = "none"
    /\ \E response \in FetchResponses :
           probe' = [ call |-> "fetch_page_data", arg |-> response,
                      ret |-> fetch_page_data(response) ]
    /\ UNCHANGED <<store, nextId, last, sc>>

NormalizeCall ==
    /\ probe.call = "none"
    /\ \E pet_data \in RawRecords :
           probe' = [ call |-> "extract_pet_data", arg |-> pet_data,
                      ret |-> extract_pet_data(pet_data) ]
    /\ UNCHANGED <<store, nextId, last, sc>>

\* the caller has the result (or the exception) and may call again
ProbeReturn ==
    /\ probe.call # "none"
    /\ probe' = NoProbe
    /\ UNCHANGED <<store, nextId, last, sc>>

NextFetch == FetchCall \/ ProbeReturn

SpecFetch == Init /\ [][NextFetch]_vars

NextNorm == NormalizeCall \/ ProbeReturn

SpecNorm == Init /\ [][NextNorm]_vars

\* C8: whatever the exchange does, fetch_page_data returns the parsed body
\* and that body has the top-level result container, or it raises
\* PetFinderAPIError; no other exception reaches the caller.
C8_Claim ==
    probe.call = "fetch_page_data" =>
        \/ probe.ret = Raise("PetFinderAPIError")
        \/ /\ probe.ret = probe.arg.body
           /\ probe.ret.t = "map"
           /\ "result" \in DOMAIN probe.ret.m

\* C9: extract_pet_data never raises, whatever members of the raw record
\* are absent, null or of the wrong type.
C9_Claim ==
    probe.call = "extract_pet_data" => ~IsRaise(probe.ret)

-----------------------------------------------------------------------------
(* build_search_url on the distances a caller can pass *)

Distances ==
    { None, Bool(TRUE), List(<<>>), EmptyMap,
      EmptyStr, Str(<<"a", "b", "c">>), Str(<<"5", "0">>), Str(<<" ", "7", " ">>),
      Str(<<"-", "5">>), Str(<<"5", ".", "0">>) }
    \cup { Num(n) : n \in {-5, 0, 1, 2, 50, 100, 499, 500, 501, 1000} }

UrlCall ==
    /\ probe.call = "none"
    /\ \E city \in {Seattle, Tacoma}, animal \in {Dog, Str(<<"c", "a", "t">>)},
          page \in 1..MaxPages, distance \in Distances :
           probe' = [ call |-> "build_search_url",
                      arg  |-> [ city |-> city, state |-> WA, animal |-> animal,
                                 page |-> page, distance |-> distance ],
                      ret  |-> build_search_url(city, WA, animal, page, distance) ]
    /\ UNCHANGED <<store, nextId, last, sc>>

NextUrl == UrlCall \/ ProbeReturn

SpecUrl == Init /\ [][NextUrl]_vars

\* C11: build_search_url never fails on its distance argument and the
\* distance of the query is always in [1,500]: 1 for a number below 1, 500
\* for a number above 500, the number itself in between, 100 for null and
\* for a value that is no number.
C11_Claim ==
    probe.call = "build_search_url" =>
        LET distance == probe.arg.distance
        IN  /\ ~IsRaise(probe.ret)
            /\ probe.ret.distance \in 1..500
            /\ distance.t = "num" =>
                   probe.ret.distance =
                       IF distance.n < 1 THEN 1
                       ELSE IF distance.n > 500 THEN 500 ELSE distance.n
            /\ (distance = None \/ IsRaise(IntOf(distance))) =>
                   probe.ret.distance = 100

-----------------------------------------------------------------------------
(* remove_duplicate_pets on the tables the schema admits *)

MaxRows == 3

\* profile_url is no unique column and writers are not serialized: a table
\* can hold any rows.  The i-th row created has primary key and creation
\* time i.
SweepUrls == { None, EmptyStr, Str(<<"u">>), Str(<<"v">>) }

SweepNames == { Str(<<"R">>), Str(<<"T">>) }

SweepRow(i, name, profile_url) ==
    NewPet([ name |-> name, primary_breed |-> Str(<<"L">>),
             profile_url |-> profile_url ], i, i)

RECURSIVE TablesUpTo(_)
TablesUpTo(n) ==
    IF n = 0 THEN { {} }
    ELSE TablesUpTo(n - 1)
         \cup { rows \cup {SweepRow(n, name, p)} :
                  rows \in TablesUpTo(n - 1), name \in SweepNames, p \in SweepUrls }

InitSweep ==
    /\ store \in TablesUpTo(MaxRows)
    /\ nextId = MaxRows + 1
    /\ last = NoOp
    /\ sc = Idle
    /\ probe = NoProbe

NextSweep == Sweep \/ Clear

SpecSweep == InitSweep /\ [][NextSweep]_vars

\* the groups of a table: the rows of one non-empty profile identifier,
\* more than one of them
UrlGroups(rows) ==
    { ByProfileUrl(rows, r.profile_url) :
        r \in { q \in rows : /\ q.profile_url # None /\ q.profile_url # EmptyStr
                             /\ Cardinality(ByProfileUrl(rows, q.profile_url)) > 1 } }

\* the most recently created row of a set of rows
MostRecent(G) == CHOOSE r \in G : \A q \in G : q.created_at <= r.created_at

\* C12 as stated: of N > 1 stored entities sharing one non-empty profile
\* identifier, the sweep removes exactly N - 1 and leaves the most
\* recently created one.
C12_Original ==
    last.op = "sweep" =>
        \A G \in UrlGroups(last.before) : G \cap store = {MostRecent(G)}

\* a row that pass (a) leaves in the table
LeftByPassA(rows, r) ==
    \/ r.profile_url \in {None, EmptyStr}
    \/ \A q \in rows : q.profile_url = r.profile_url => q.created_at <= r.created_at

\* C12 (amended): of N > 1 stored entities sharing one non-empty profile
\* identifier, the sweep removes the N - 1 that are not the most recently
\* created one; the most recently created one remains unless pass (b)
\* removes it too, which it does exactly when an entity left by pass (a)
\* and created after it has the same name and primary breed.
C12_KeepsNewestOfGroup ==
    last.op = "sweep" =>
        \A G \in UrlGroups(last.before) :
            /\ G \cap store \subseteq {MostRecent(G)}
            /\ MostRecent(G) \notin store <=>
                   \E q \in last.before :
                       /\ LeftByPassA(last.before, q)
                       /\ q.name = MostRecent(G).name
                       /\ q.primary_breed = MostRecent(G).primary_breed
                       /\ q.created_at > MostRecent(G).created_at

C12_Witness ==
    /\ last.op = "sweep"
    /\ \E G \in UrlGroups(last.before) :
           /\ Cardinality(G) = 3
           /\ G \cap store = {MostRecent(G)}
           /\ Cardinality(last.before \ store) = 2

\* C13: the count remove_duplicate_pets returns is the number of rows it
\* removed, whatever the table held.
C13_CountsRemoved ==
    last.op = "sweep" =>
        /\ store \subseteq last.before
        /\ last.ret = Cardinality(last.before) - Cardinality(store)

\* both passes removed a row
C13_Witness ==
    /\ last.op = "sweep"
    /\ last.ret = 2
    /\ Cardinality(last.before) = 3
    /\ Cardinality(UrlGroups(last.before)) = 1
    /\ \A G \in UrlGroups(last.before) : Cardinality(G) = 2 /\ G \cap store = {}

-----------------------------------------------------------------------------
(* Claims about what the store operations return *)

\* C14: the count save_pets_to_database returns is the number of rows the
\* call inserted: the size of the table after the call minus its size
\* before; updated and filtered records are not counted.
C14_Claim ==
    last.op = "save" =>
        last.ret = Cardinality(store) - Cardinality(last.before)

\* the call has raised PetFinderAPIError to its caller
Failed == sc.pc = "done" /\ IsRaise(sc.ret)

\* C15: when scrape_pets raises, the table holds exactly the rows it held
\* when scrape_pets was called.
C15_FailureLeavesStore ==
    Failed => /\ sc.ret = Raise("PetFinderAPIError")
              /\ store = sc.rows_at_call

C15_Witness ==
    /\ Failed
    /\ store # {}
    /\ store = sc.rows_at_call
    /\ sc.trace = <<FetchEvent(1)>>

\* C16: with search city, search state and max distance all given and no
\* coordinates from the resolver, save_pets_to_database returns and has
\* filtered no record of the batch: each one, with or without coordinates
\* of its own, went on to the match / insert step.
C16_NoOriginNoFilter ==
    ( /\ last.op = "save"
      /\ last.search_city # None /\ last.search_state # None
      /\ last.max_distance # None
      /\ last.origin = <<None, None>> ) =>
        /\ Len(last.log) = Len(last.batch)
        /\ \A i \in DOMAIN last.log : last.log[i] \in {"created", "updated", "failed"}
        /\ \A i \in DOMAIN last.log :
               (~last.broken /\ RecordUrl(LastData[i]) # EmptyStr) =>
                   \E r \in store : r.profile_url = RecordUrl(LastData[i])

\* a record 104 miles from anywhere near is inserted under a 50 mile limit
C16_Witness ==
    /\ last.op = "save"
    /\ last.search_city = Tacoma /\ last.search_state = WA
    /\ last.max_distance = Num(50)
    /\ last.origin = <<None, None>>
    /\ last.batch = <<"Far", "NoUrl">>
    /\ last.log = <<"created", "created">>
    /\ Cardinality(store) = 2

-----------------------------------------------------------------------------
(* get_coordinates_cached on cities and states in any letter case *)

\* a str with each of its letters in upper or in lower case
CaseVariants(s) ==
    { [i \in DOMAIN s |-> IF i \in U THEN UpperChar(s[i]) ELSE LowerChar(s[i])] :
        U \in SUBSET DOMAIN s }

GeoCities ==
    { Str(c) : c \in CaseVariants(SeattleKey[1]) \cup CaseVariants(NewYorkKey[1]) }
    \cup { Tacoma, Str(<<" ">> \o SeattleKey[1]),
           Str(<<"N", "e", "w", "y", "o", "r", "k">>) }

GeoStates ==
    { Str(c) : c \in CaseVariants(SeattleKey[2]) \cup CaseVariants(NewYorkKey[2]) }

\* what the provider answers when it is asked
ProviderAnswers == { NoAnswer, <<Num(472), Num(-1223)>> }

GeoCall ==
    /\ probe.call = "none"
    /\ \E city \in GeoCities, state \in GeoStates, provider \in ProviderAnswers :
           probe' = [ call |-> "get_coordinates_cached",
                      arg  |-> [city |-> city, state |-> state, provider |-> provider],
                      ret  |-> get_coordinates_cached(city, state, provider),
                      provider_called |-> ProviderCalled(city, state) ]
    /\ UNCHANGED <<store, nextId, last, sc>>

NextGeo == GeoCall \/ ProbeReturn

SpecGeo == Init /\ [][NextGeo]_vars

\* the keys of the table that spell the city and the state, letter case
\* apart
KeysSpelling(city, state) ==
    { key \in CacheKeys : /\ Lower(Str(key[1])) = Lower(city)
                          /\ Lower(Str(key[2])) = Lower(state) }

\* C17: a city and state that spell a key of the static table, in any
\* letter case, get the coordinates of the table, and the external
\* provider is not called.
C17_CacheHit ==
    probe.call = "get_coordinates_cached" =>
        \A key \in KeysSpelling(probe.arg.city, probe.arg.state) :
            /\ probe.ret = CITY_COORDINATES_CACHE(key)
            /\ ~probe.provider_called

C17_Witness ==
    /\ probe.call = "get_coordinates_cached"
    /\ probe.arg.city = Str(<<"n", "E", "W", " ", "y", "o", "R", "K">>)
    /\ probe.arg.state = Str(<<"n", "y">>)
    /\ probe.arg.provider = <<Num(472), Num(-1223)>>
    /\ probe.ret = <<Num(407), Num(-740)>>
    /\ ~probe.provider_called

-----------------------------------------------------------------------------
(* Pet.calculate_distance on points of one meridian *)

\* latitudes in tenths of a degree, None for a missing one
Latitudes == { None, Num(0), Num(-335), Num(472), Num(476), Num(491) }

Longitudes == { None, Num(0), Num(-1223) }

\* the pet's point and the target: on the same meridian when both have a
\* longitude
PointPairs ==
    { [ latitude |-> lat, longitude |-> lon,
        target_lat |-> tlat, target_lon |-> tlon ] :
        lat \in Latitudes, lon \in Longitudes, tlat \in Latitudes,
        tlon \in {None} \cup (Longitudes \ {None}) }

DistanceCall ==
    /\ probe.call = "none"
    /\ \E a \in { p \in PointPairs :
                     p.longitude = None \/ p.target_lon \in {None, p.longitude} } :
           probe' = [ call |-> "calculate_distance", arg |-> a,
                      ret  |-> calculate_distance(a.latitude, a.longitude,
                                                  a.target_lat, a.target_lon) ]
    /\ UNCHANGED <<store, nextId, last, sc>>

NextDistance == DistanceCall \/ ProbeReturn

SpecDistance == Init /\ [][NextDistance]_vars

\* C18: calculate_distance returns None only when one of the four
\* coordinates is missing, and the distance from a point with both
\* coordinates to itself is 0, a latitude or longitude of 0 included.
C18_Claim ==
    probe.call = "calculate_distance" =>
        /\ probe.ret = None =>
               None \in { probe.arg.latitude, probe.arg.longitude,
                          probe.arg.target_lat, probe.arg.target_lon }
        /\ ( /\ probe.arg.latitude # None /\ probe.arg.longitude # None
              /\ probe.arg.target_lat = probe.arg.latitude
              /\ probe.arg.target_lon = probe.arg.longitude ) =>
               probe.ret = Num(0)

\* C19: every Pet that save_pets_to_database has written passes the
\* mixed-breed validation: a true mixed-breed flag comes with a non-empty
\* secondary breed.
C19_Claim ==
    last.op = "save" => \A pet \in store : clean(pet) = None

-----------------------------------------------------------------------------
(* HomePageView.post with a valid form: clear_all_pets, then scrape_pets *)

\* the choices of PetSearchForm.distance some of which the model carries,
\* as the form hands them over
FormDistances == { Str(<<"5", "0">>), Str(<<"2", "0", "0">>) }

\* lines 74-101 of the view: the distance is made an int, the table is
\* cleared, scrape_pets is called with max_pages = 1 and runs up to its
\* page loop
PostSearch ==
    /\ sc.pc = "idle"
    /\ nextId <= MaxId
    /\ \E distance \in FormDistances, response \in FirstResponses :
           \E c \in {clear_all_pets(store)} :
               /\ store' = c.rows
               /\ sc' = ScrapeStart([ city |-> Str(SeattleKey[1]), state |-> WA,
                                      animal |-> Dog, max_pages |-> 1,
                                      distance |-> IntOf(distance) ], response)
                        @@ [ rows_at_call |-> c.rows, deleted_count |-> c.ret,
                             rows_before_search |-> store ]
    /\ UNCHANGED <<nextId, last, probe>>

NextSearch == PostSearch \/ ScrapePage \/ ScrapeSave \/ ScrapeReturn

SpecSearch == Init /\ [][NextSearch]_vars

\* C20: in a search the table is cleared before scrape_pets is called:
\* clear_all_pets returns the number of rows the table held and leaves it
\* empty, and when the search succeeds every stored Pet is one the search
\* produced: none of the rows from before, and each made from a record of
\* the batch of this search.
C20_ClearThenScrape ==
    sc.pc # "idle" =>
        /\ sc.deleted_count = Cardinality(sc.rows_before_search)
        /\ sc.rows_at_call = {}
        /\ Returned =>
               \A pet \in store :
                   /\ pet.id \notin { q.id : q \in sc.rows_before_search }
                   /\ \E i \in DOMAIN sc.all_pets_data :
                          /\ pet.profile_url = sc.all_pets_data[i].profile_url
                          /\ pet.name = sc.all_pets_data[i].name

\* a second search: it cleared what the first had stored and stored its own
C20_Witness ==
    /\ Returned
    /\ sc.deleted_count = 1
    /\ store # {}
    /\ store \cap sc.rows_before_search = {}

-----------------------------------------------------------------------------
(* scrape_pets under a scheduler that lets the call run on *)

\* the caller's thread keeps running: a call that can take a step takes one
SpecScrapeFair ==
    Init /\ [][NextScrape]_vars /\ WF_vars(NextScrape)

\* the page numbers requested so far are strictly ascending, so none is
\* requested twice and a failed one is not requested again
AscendingFetches ==
    \A i, j \in DOMAIN Fetches : i < j => Fetches[i].page < Fetches[j].page

\* C21 as stated: each page is requested at most once, in strictly
\* ascending order, none above min(max_pages, total_pages), and the call
\* terminates.
C21_Original ==
    /\ [](sc.pc # "idle" =>
            /\ AscendingFetches
            /\ sc.total_pages.t = "num" =>
                   \A k \in DOMAIN Fetches :
                       Fetches[k].page <= Min(sc.args.max_pages, sc.total_pages.n))
    /\ (sc.pc = "loop") ~> (sc.pc = "done")

\* C21 (amended): each page is requested at most once, in strictly
\* ascending order starting with page 1, a failed page is never requested
\* again, no page above max(1, min(max_pages, total_pages)) is requested
\* (page 1 is requested whatever the two are, and it alone when it fails
\* or reports no usable total), and the call terminates.
C21_SingleAttempt ==
    /\ [](sc.pc # "idle" =>
            /\ AscendingFetches
            /\ \A k \in DOMAIN Fetches : Fetches[k] = FetchEvent(k)
            /\ Len(Fetches) = Len(sc.fetched)
            /\ Len(Fetches) <=
                   IF sc.total_pages.t = "num"
                   THEN Max(1, Min(sc.args.max_pages, sc.total_pages.n))
                   ELSE 1)
    /\ (sc.pc = "loop") ~> (sc.pc = "done")

\* pages 2 and 3 both failed, each was asked for once
C21_Witness ==
    /\ Returned
    /\ Fetches = <<FetchEvent(1), FetchEvent(2), FetchEvent(3)>>
    /\ FailedPages = {2, 3}
-----------------------------------------------------------------------------
(* Claims about the batch scrape_pets hands to the upsert *)

\* the raw records of a fetched page, each normalized, in page order
PageRecords(page_data) ==
    LET animals == page_data.m["result"].m["animals"]
        l       == IF animals.t = "list" THEN animals.l ELSE <<>>
    IN  [i \in DOMAIN l |-> extract_pet_data(l[i])]

\* the pages of the call whose fetch succeeded, each with its records
RECURSIVE RecordsUpTo(_)
RecordsUpTo(k) ==
    IF k = 0 THEN <<>>
    ELSE RecordsUpTo(k - 1)
         \o (IF IsRaise(sc.fetched[k]) THEN <<>> ELSE PageRecords(sc.fetched[k]))

\* C22: the batch scrape_pets passes to the upsert is the concatenation, in
\* page order, of the records of every successfully fetched page in their
\* order within the page: none dropped, duplicated or reordered.
C22_Claim ==
    Returned => sc.all_pets_data = RecordsUpTo(Len(sc.fetched))

\* C24: a record whose normalization fails is the only one skipped; the
\* records of its page that normalize, those after it included, reach the
\* batch handed to the upsert.
C24_Claim ==
    (Returned /\ sc.pages_to_scrape >= 1) =>
        sc.all_pets_data =
            SelectSeq(RecordsUpTo(Len(sc.fetched)), LAMBDA pet : ~IsRaise(pet))
-----------------------------------------------------------------------------
(* Claims about when scrape_pets writes the store *)

\* the step in which the call of line 343 is made
SaveStep == sc.pc = "loop" /\ sc'.pc = "done" /\ sc'.saved

\* during a call the store changes in the save step only; that step comes
\* when no page is left to fetch, makes no fetch, and is the first save
SavesAfterLastFetch ==
    sc.pc # "idle" =>
        IF SaveStep
        THEN /\ sc.page_num > sc.pages_to_scrape
             /\ sc'.trace = sc.trace
             /\ ~sc.saved
        ELSE store' = store

\* C23 as stated: every call of scrape_pets makes exactly one
\* save_pets_to_database call, after its last page fetch, and the store is
\* not written while a page is still to be fetched.
C23_Original ==
    /\ [](sc.pc = "done" => sc.saved)
    /\ [][SavesAfterLastFetch]_vars

\* C23 (amended): a call of scrape_pets that returns makes exactly one
\* save_pets_to_database call, after its last page fetch; a call that
\* raises PetFinderAPIError makes none; the store is never written while a
\* page is still to be fetched.
C23_SingleSave ==
    /\ [](sc.pc = "done" => (sc.saved <=> ~IsRaise(sc.ret)))
    /\ [][SavesAfterLastFetch]_vars

\* three pages were fetched, then the batch was written
C23_Witness ==
    /\ Returned
    /\ Len(Fetches) = 3
    /\ store # sc.rows_at_call
    /\ sc.ret.pets_saved = Num(2)
-----------------------------------------------------------------------------
(* Claims about records without a profile identifier *)

\* every record of the last batch has an empty profile identifier and
\* none was dropped by the distance filter
EmptyUrlBatch ==
    /\ last.op = "save"
    /\ last.batch # <<>>
    /\ \A i \in DOMAIN LastData : RecordUrl(LastData[i]) = EmptyStr
    /\ \A i \in DOMAIN last.log : last.log[i] # "filtered"

\* C25: a record with an empty profile identifier is never matched to a
\* stored row: a batch of k such records, none filtered by distance, adds
\* exactly k rows every time it is applied, identical rows being stored or
\* not, and leaves the rows that were there as they were.
C25_EmptyUrlInserts ==
    EmptyUrlBatch =>
        /\ \A i \in DOMAIN last.log : last.log[i] = "created"
        /\ last.before \subseteq store
        /\ Cardinality(store) = Cardinality(last.before) + Len(last.batch)
        /\ last.ret = Len(last.batch)

\* the same one-record batch applied a second time: its twin was stored
\* already, and a second row was added
C25_Witness ==
    /\ EmptyUrlBatch
    /\ last.repeat
    /\ Len(last.batch) = 1
    /\ \E row \in last.before :
           \A k \in DOMAIN LastData[1] : row[k] = LastData[1][k]
    /\ Cardinality(store) = 2
    /\ Cardinality(last.before) = 1
-----------------------------------------------------------------------------
(* The management commands remove_duplicate_pets and clean_duplicates *)

\* remove_duplicate_pets.py, lines 29-60: for every (name, primary_breed)
\* with more than one row the rows are ordered by created_at ascending, the
\* first is kept, the others are counted and, without --dry-run, deleted
remove_duplicate_pets_handle(rows, dry_run) ==
    LET delete_pets ==
            { r \in rows :
                /\ Cardinality(ByNameBreed(rows, r.name, r.primary_breed)) > 1
                /\ r # Oldest(ByNameBreed(rows, r.name, r.primary_breed)) }
    IN  [ rows             |-> IF dry_run THEN rows ELSE rows \ delete_pets,
          total_duplicates |-> Cardinality(delete_pets),
          total_deleted    |-> IF dry_run THEN 0 ELSE Cardinality(delete_pets) ]

\* clean_duplicates.py, lines 19-37: --dry-run does nothing; without it the
\* command calls services.remove_duplicate_pets
clean_duplicates_handle(rows, dry_run) ==
    IF dry_run THEN [rows |-> rows, ret |-> 0]
    ELSE remove_duplicate_pets(rows)

RemoveDuplicatePetsCommand ==
    \E dry_run \in BOOLEAN :
        \E r \in {remove_duplicate_pets_handle(store, dry_run)} :
            /\ store' = r.rows
            /\ last' = [NoOp EXCEPT !.op = "remove_duplicate_pets_command",
                                    !.ret = r.total_deleted, !.before = store]
                       @@ [dry_run |-> dry_run]
            /\ UNCHANGED <<nextId, sc, probe>>

CleanDuplicatesCommand ==
    \E dry_run \in BOOLEAN :
        \E r \in {clean_duplicates_handle(store, dry_run)} :
            /\ store' = r.rows
            /\ last' = [NoOp EXCEPT !.op = "clean_duplicates_command",
                                    !.ret = r.ret, !.before = store]
                       @@ [dry_run |-> dry_run]
            /\ UNCHANGED <<nextId, sc, probe>>

NextCommands == RemoveDuplicatePetsCommand \/ CleanDuplicatesCommand

SpecCommands == InitSweep /\ [][NextCommands]_vars

\* what pass (b) of services.remove_duplicate_pets leaves of a table
LeftByPassB(rows) == rows \ NameBreedVictims(rows)

\* C26: run without --dry-run, the remove_duplicate_pets command leaves of
\* every (name, primary breed) group with more than one member the row
\* that pass (b) of services.remove_duplicate_pets leaves of it on the same
\* table: the most recently created one.
C26_Claim ==
    (last.op = "remove_duplicate_pets_command" /\ ~last.dry_run) =>
        \A r \in last.before :
            LET group == ByNameBreed(last.before, r.name, r.primary_breed)
            IN  Cardinality(group) > 1 =>
                    /\ ByNameBreed(store, r.name, r.primary_breed)
                           = ByNameBreed(LeftByPassB(last.before), r.name, r.primary_breed)
                    /\ ByNameBreed(store, r.name, r.primary_breed) = {Newest(group)}
-----------------------------------------------------------------------------
(* Claims about the table remove_duplicate_pets leaves *)

\* no two rows with one non-empty profile identifier
UniqueUrls(rows) ==
    \A p \in rows, q \in rows :
        (Truthy(p.profile_url) /\ p.profile_url = q.profile_url) => p = q

\* no two rows with one (name, primary_breed) pair
UniqueNameBreeds(rows) ==
    \A p \in rows, q \in rows :
        (p.name = q.name /\ p.primary_breed = q.primary_breed) => p = q

\* C27: when remove_duplicate_pets returns, whatever the table was, no two
\* rows share a non-empty profile identifier and no two share a (name,
\* primary breed) pair; a second call right after removes nothing and
\* returns 0.
C27_SweepIsIdempotent ==
    last.op = "sweep" =>
        /\ UniqueUrls(store)
        /\ UniqueNameBreeds(store)
        /\ remove_duplicate_pets(store) = [rows |-> store, ret |-> 0]
        /\ (UniqueUrls(last.before) /\ UniqueNameBreeds(last.before)) =>
               (last.ret = 0 /\ store = last.before)

\* a table of three rows, two of one identifier and two of one name: two
\* rows were removed
C27_Witness ==
    /\ last.op = "sweep"
    /\ Cardinality(last.before) = 3
    /\ ~UniqueUrls(last.before)
    /\ last.ret = 2
    /\ Cardinality(store) = 1

\* C28: remove_duplicate_pets removes true duplicates only: of every row it
\* removes, a row with the same non-empty profile identifier or the same
\* (name, primary breed) pair is still stored when it returns.
C28_Claim ==
    last.op = "sweep" =>
        \A r \in last.before \ store :
            \E q \in store :
                \/ Truthy(r.profile_url) /\ q.profile_url = r.profile_url
                \/ q.name = r.name /\ q.primary_breed = r.primary_breed
-----------------------------------------------------------------------------
(* Claims about the distance scrape_pets filters by *)

\* the miles between a record with coordinates and the origin of the search
MilesFromOrigin(pet_data) ==
    LET origin == get_coordinates_cached(sc.args.city, sc.args.state, NoAnswer)
    IN  calculate_distance(pet_data.latitude, pet_data.longitude,
                           origin[1], origin[2]).n

\* C29: the bound scrape_pets filters by is the clamped distance of the
\* query: whatever distance is passed (0, negative, null), a record with
\* coordinates at distance D is persisted iff D <= clamp(distance).
C29_Claim ==
    (Returned /\ sc.rows_at_call = {}) =>
        \A i \in DOMAIN sc.all_pets_data :
            LET pet_data == sc.all_pets_data[i]
            IN  (Truthy(pet_data.latitude) /\ Truthy(pet_data.longitude)) =>
                    (Persisted(pet_data) <=>
                         MilesFromOrigin(pet_data)
                             <= MileUnits(ClampDistance(sc.args.distance).n))
-----------------------------------------------------------------------------
(* Claims about the update of a matched row *)

\* the records of the last batch that were written, by their identifier
WrittenUrls == { RecordUrl(LastData[i]) : i \in {j \in DOMAIN LastData : Written(j)} }

\* C30: when save_pets_to_database updates a row matched by profile
\* identifier, the row keeps its id, its creation timestamp and its
\* profile identifier, the number of rows is left as it was (only the
\* records inserted add to it), and no other row is modified.
C30_UpdateKeepsIdentity ==
    (last.op = "save" /\ ~last.broken) =>
        /\ \A i \in DOMAIN LastData :
               (Written(i) /\ ByProfileUrl(last.before, RecordUrl(LastData[i])) # {}
                           /\ Truthy(RecordUrl(LastData[i]))) =>
                   /\ last.log[i] = "updated"
                   /\ \E old \in last.before, new \in store :
                          /\ old.profile_url = RecordUrl(LastData[i])
                          /\ new.id = old.id
                          /\ new.created_at = old.created_at
                          /\ new.profile_url = old.profile_url
                          /\ ByProfileUrl(store, old.profile_url) = {new}
        /\ Cardinality(store) =
               Cardinality(last.before)
                   + Cardinality({i \in DOMAIN last.log : last.log[i] = "created"})
        /\ \A row \in last.before :
               (~Truthy(row.profile_url) \/ row.profile_url \notin WrittenUrls)
                   => row \in store

\* a stored row was updated with other data next to a row that was not in
\* the batch: same id and creation time, new content, the other row as it
\* was
C30_Witness ==
    /\ last.op = "save" /\ ~last.broken
    /\ last.log = <<"updated">>
    /\ Cardinality(last.before) = 2
    /\ Cardinality(store) = 2
    /\ \E old \in last.before, new \in store :
           /\ new.id = old.id /\ new.created_at = old.created_at
           /\ new.profile_url = old.profile_url
           /\ new # old
    /\ \E row \in last.before : row \in store

=============================================================================
